---- MODULE Spec2Model ----
(***************************************************************************)
(* Model of src/Apr.py: a Streamlit page that loads a sheet of project     *)
(* cash flows and, on "Generer l'evaluation", computes the financial       *)
(* indicators (VANF, TRIF, DRC) and the economic indicators (VANE, TRIE,   *)
(* RCA), lists them in a results table and draws them as a bar chart.      *)
(*                                                                         *)
(* Numbers.  The program computes in float64.  The model computes in exact *)
(* rationals [num, den] in lowest terms; the float64 specials the program  *)
(* can produce (nan, inf, -inf) and Python's None are kept as separate     *)
(* kinds of value, so that "a number", "nan" and "None" stay distinct.     *)
(***************************************************************************)
EXTENDS Integers, Sequences, FiniteSets, TLC

VARIABLES language, loaded, data, discount_pct, ran, invoked, results, errors, chart,
          runs

\* runs is a history variable: for each language, the result set of the latest
\* "generate" run made in that language on the sheet and rate now in the session
vars == <<language, loaded, data, discount_pct, ran, invoked, results, errors, chart, runs>>

(***************************************************************************)
(* Bounds of the model and constants of the program.                       *)
(***************************************************************************)
MaxRows == 3

FillValue == 0
MinRate == 0
DefaultRate == 8
MaxRate == 100
PercentBase == 100

Languages == {"fr", "en"}

Codes == <<"VANF", "TRIF", "DRC", "VANE", "TRIE", "RCA">>

TRANSLATIONS ==
    [VANF |-> [fr |-> "Valeur Actuelle Nette Financiere", en |-> "Financial Net Present Value"],
     TRIF |-> [fr |-> "Taux de Rendement Interne Financier", en |-> "Financial Internal Rate of Return"],
     DRC  |-> [fr |-> "Delai de Recuperation du Capital", en |-> "Capital Recovery Period"],
     VANE |-> [fr |-> "Valeur Actuelle Nette Economique", en |-> "Economic Net Present Value"],
     TRIE |-> [fr |-> "Taux de Rendement Interne Economique", en |-> "Economic Internal Rate of Return"],
     RCA  |-> [fr |-> "Rendement du Capital Ajuste", en |-> "Adjusted Capital Yield"]]

\* list(TRANSLATIONS.keys()): a dict keeps its insertion order
TranslationKeys == Codes

colors == <<"blue", "red", "green", "purple", "orange", "cyan">>

FinancialColumns == {"Year", "Total_Costs", "Revenues", "Residual_Value"}
EconomicColumns == {"Corrected_Costs", "Corrected_Revenues", "Externalities"}
ColumnNames == FinancialColumns \cup EconomicColumns

(***************************************************************************)
(* Cells and columns.  A cell holds a number or a text; an empty cell has  *)
(* been replaced by FillValue when the sheet was loaded.                   *)
(***************************************************************************)
NumCell(x) == [t |-> "num", v |-> x]
TxtCell == [t |-> "txt", v |-> 0]

IsNumeric(col) == \A i \in 1..Len(col) : col[i].t = "num"

(***************************************************************************)
(* Exact rational arithmetic standing for float64 arithmetic.              *)
(***************************************************************************)
Abs(x) == IF x < 0 THEN -x ELSE x

RECURSIVE Gcd(_, _)
Gcd(a, b) == IF b = 0 THEN a ELSE Gcd(b, a % b)

Rat(n, d) ==
    LET g == Gcd(Abs(n), Abs(d))
        s == IF d < 0 THEN -1 ELSE 1
    IN  [num |-> s * (n \div g), den |-> s * (d \div g)]

RAdd(a, b) ==
    LET l == (a.den \div Gcd(a.den, b.den)) * b.den
    IN  Rat(a.num * (l \div a.den) + b.num * (l \div b.den), l)

RMul(a, b) == Rat(a.num * b.num, a.den * b.den)

\* a / b for b # 0
RDiv(a, b) == Rat(a.num * b.den, a.den * b.num)

RECURSIVE RPow(_, _)
RPow(a, k) == IF k = 0 THEN Rat(1, 1) ELSE RMul(a, RPow(a, k - 1))

(***************************************************************************)
(* Values an indicator can take.                                           *)
(***************************************************************************)
NoneV == [kind |-> "None", num |-> 0, den |-> 1, of |-> <<>>]
NaN == [kind |-> "nan", num |-> 0, den |-> 1, of |-> <<>>]
PosInf == [kind |-> "inf", num |-> 0, den |-> 1, of |-> <<>>]
NegInf == [kind |-> "-inf", num |-> 0, den |-> 1, of |-> <<>>]
FloatV(r) == [kind |-> "num", num |-> r.num, den |-> r.den, of |-> <<>>]
\* the rate found by the root search of irr on a series that changes sign:
\* a float64, kept symbolic (the series it was searched on)
RootV(values) == [kind |-> "irr", num |-> 0, den |-> 1, of |-> values]

(***************************************************************************)
(* Series arithmetic (pandas).  a - b and a + b work element by element    *)
(* and raise TypeError as soon as one operand cell is a text.              *)
(***************************************************************************)
SeriesRaises(a, b) == ~IsNumeric(a) \/ ~IsNumeric(b)

SeriesSub(a, b) == [i \in 1..Len(a) |-> a[i].v - b[i].v]

SeriesAdd(values, b) == [i \in 1..Len(values) |-> values[i] + b[i].v]

RECURSIVE SeriesSum(_)
SeriesSum(col) == IF col = <<>> THEN 0 ELSE col[1].v + SeriesSum(Tail(col))

(***************************************************************************)
(* numpy_financial, as called by the evaluations.                          *)
(*   npv(rate, values) = (values / (1+rate)**arange(0, len(values))).sum() *)
(*   irr(values)       = nan when the series has no sign change            *)
(***************************************************************************)
RECURSIVE DiscountedFrom(_, _, _)
DiscountedFrom(growth, values, t) ==
    IF values = <<>> THEN Rat(0, 1)
    ELSE RAdd(RDiv(Rat(values[1], 1), RPow(growth, t)),
              DiscountedFrom(growth, Tail(values), t + 1))

\* variant: every period discounted, the first one included (t from 1)
npv_end_of_period(rate, values) == DiscountedFrom(RAdd(Rat(1, 1), rate), values, 1)

npv(rate, values) == DiscountedFrom(RAdd(Rat(1, 1), rate), values, 0)

HasSignChange(values) ==
    (\E i \in 1..Len(values) : values[i] > 0) /\ (\E j \in 1..Len(values) : values[j] < 0)

irr(values) == IF HasSignChange(values) THEN RootV(values) ELSE NaN

\* (cash_flows < 0).sum()
CountNegative(values) == Cardinality({i \in 1..Len(values) : values[i] < 0})

\* float64 / int64: a zero divisor gives inf, -inf or nan (a warning, no exception)
FloatDiv(r, d) ==
    IF d # 0 THEN FloatV(RDiv(r, Rat(d, 1)))
    ELSE IF r.num > 0 THEN PosInf
    ELSE IF r.num < 0 THEN NegInf
    ELSE NaN

(***************************************************************************)
(* financial_evaluation and economic_evaluation.  `raised` tells whether   *)
(* the except branch ran, `error` is the message it gave to st.error.      *)
(***************************************************************************)
\* variant: the except branch returns a zero count instead of None
Failure_keeps_count(message) ==
    [npv |-> NoneV, irr |-> NoneV, third |-> FloatV(Rat(0, 1)), raised |-> TRUE,
     error |-> <<message>>]

Failure(message) ==
    [npv |-> NoneV, irr |-> NoneV, third |-> NoneV, raised |-> TRUE, error |-> <<message>>]

financial_cash_flows(table) == SeriesSub(table["Revenues"], table["Total_Costs"])

financial_raises(table) ==
    \/ ~({"Revenues", "Total_Costs"} \subseteq DOMAIN table)
    \/ SeriesRaises(table["Revenues"], table["Total_Costs"])

\* variant: periods at which the cumulative cash flow is still negative
RECURSIVE PrefixSum(_, _)
PrefixSum(values, i) == IF i = 0 THEN 0 ELSE values[i] + PrefixSum(values, i - 1)

recovery_period_cumulative(cash_flows) ==
    Cardinality({i \in 1..Len(cash_flows) : PrefixSum(cash_flows, i) < 0})

recovery_period(cash_flows) == CountNegative(cash_flows)

financial_evaluation(table, discount_rate) ==
    IF financial_raises(table) THEN Failure("Erreur dans l'evaluation financiere")
    ELSE LET cash_flows == financial_cash_flows(table)
         IN  [npv |-> FloatV(npv(discount_rate, cash_flows)),
              irr |-> irr(cash_flows),
              third |-> FloatV(Rat(recovery_period(cash_flows), 1)),
              raised |-> FALSE, error |-> <<>>]

economic_cash_flows(table) ==
    SeriesAdd(SeriesSub(table["Corrected_Revenues"], table["Corrected_Costs"]),
              table["Externalities"])

economic_raises(table) ==
    \/ ~({"Corrected_Revenues", "Corrected_Costs", "Externalities"} \subseteq DOMAIN table)
    \/ SeriesRaises(table["Corrected_Revenues"], table["Corrected_Costs"])
    \/ ~IsNumeric(table["Externalities"])

adjusted_yield(npv_e, table) == FloatDiv(npv_e, SeriesSum(table["Corrected_Costs"]))

economic_evaluation(table, discount_rate) ==
    IF economic_raises(table) THEN Failure("Erreur dans l'evaluation economique")
    ELSE LET cash_flows == economic_cash_flows(table)
             npv_e == npv(discount_rate, cash_flows)
         IN  [npv |-> FloatV(npv_e),
              irr |-> irr(cash_flows),
              third |-> adjusted_yield(npv_e, table),
              raised |-> FALSE, error |-> <<>>]

(***************************************************************************)
(* main: the body of the "Generer l'evaluation" branch.                    *)
(***************************************************************************)
\* variant: only the columns the formula reads are required
has_financial_used_only(table) == {"Revenues", "Total_Costs"} \subseteq DOMAIN table

has_financial(table) == FinancialColumns \subseteq DOMAIN table
has_economic(table) == EconomicColumns \subseteq DOMAIN table

\* variant: the label is always taken in French
Row_french_only(code, lang, value) == [Indicateur |-> TRANSLATIONS[code]["fr"], Valeur |-> value]

Row(code, lang, value) == [Indicateur |-> TRANSLATIONS[code][lang], Valeur |-> value]

\* if x is not None: results.append(...)
AppendIf(rows, code, lang, value) ==
    IF value # NoneV THEN Append(rows, Row(code, lang, value)) ELSE rows

GroupRows(rows, out, lang, c1, c2, c3) ==
    AppendIf(AppendIf(AppendIf(rows, c1, lang, out.npv), c2, lang, out.irr), c3, lang, out.third)

FinancialStep(table, discount_rate, lang, rows) ==
    IF has_financial(table)
    THEN LET out == financial_evaluation(table, discount_rate)
         IN  [rows |-> GroupRows(rows, out, lang, "VANF", "TRIF", "DRC"),
              errors |-> out.error, calls |-> <<"financial_evaluation">>]
    ELSE [rows |-> rows, errors |-> <<>>, calls |-> <<>>]

EconomicStep(table, discount_rate, lang, rows) ==
    IF has_economic(table)
    THEN LET out == economic_evaluation(table, discount_rate)
         IN  [rows |-> GroupRows(rows, out, lang, "VANE", "TRIE", "RCA"),
              errors |-> out.error, calls |-> <<"economic_evaluation">>]
    ELSE [rows |-> rows, errors |-> <<>>, calls |-> <<>>]

\* variant: the economic group is computed before the financial group
Evaluate_economic_first(table, discount_rate, lang) ==
    LET e == EconomicStep(table, discount_rate, lang, <<>>)
        f == FinancialStep(table, discount_rate, lang, e.rows)
    IN  [results |-> f.rows, errors |-> e.errors \o f.errors, invoked |-> e.calls \o f.calls]

Evaluate(table, discount_rate, lang) ==
    LET f == FinancialStep(table, discount_rate, lang, <<>>)
        e == EconomicStep(table, discount_rate, lang, f.rows)
    IN  [results |-> e.rows, errors |-> f.errors \o e.errors, invoked |-> f.calls \o e.calls]

(***************************************************************************)
(* The bar chart: bar i takes colors[i]; the legend pairs the i-th colour  *)
(* patch with the i-th key of TRANSLATIONS.                                *)
(***************************************************************************)
NoChart == [rendered |-> FALSE, bars |-> <<>>, legend |-> <<>>]

Bars(rows) ==
    [i \in 1..Len(rows) |->
        [label |-> rows[i].Indicateur, height |-> rows[i].Valeur,
         color |-> colors[((i - 1) % Len(colors)) + 1]]]

Legend == [k \in 1..Len(colors) |-> [color |-> colors[k], key |-> TranslationKeys[k]]]

\* variant: the chart is drawn without the test on results_df.empty
DrawChart_unguarded(rows) == [rendered |-> TRUE, bars |-> Bars(rows), legend |-> Legend]

DrawChart(rows) ==
    IF rows # <<>> THEN [rendered |-> TRUE, bars |-> Bars(rows), legend |-> Legend]
    ELSE NoChart

discount_rate_of(pct) == Rat(pct, PercentBase)

(***************************************************************************)
(* Inputs.                                                                 *)
(***************************************************************************)
Rates == {MinRate, DefaultRate, MaxRate}

NoTable == [c \in {} |-> <<>>]

Column(vals) == [i \in 1..Len(vals) |-> NumCell(vals[i])]

\* the sheet of the worked example: net cash flow 50, -50, 50
ExampleSheet ==
    [Year |-> Column(<<1, 2, 3>>),
     Revenues |-> Column(<<100, 100, 100>>),
     Total_Costs |-> Column(<<50, 150, 50>>),
     Residual_Value |-> Column(<<0, 0, 10>>),
     Corrected_Revenues |-> Column(<<100, 100, 100>>),
     Corrected_Costs |-> Column(<<50, 150, 50>>),
     Externalities |-> Column(<<0, 10, 10>>)]

\* a sheet of empty cells, filled with FillValue by data.fillna
BlankSheet == [c \in ColumnNames |-> [i \in 1..MaxRows |-> NumCell(FillValue)]]

\* the example with a text typed in the second cell of one column
TextIn(c) == [ExampleSheet EXCEPT ![c] = <<ExampleSheet[c][1], TxtCell, ExampleSheet[c][3]>>]

TextColumns ==
    {"Year", "Revenues", "Total_Costs", "Corrected_Revenues", "Corrected_Costs", "Externalities"}

SampleSheets == {ExampleSheet, BlankSheet} \cup {TextIn(c) : c \in TextColumns}

\* the sheets a user may upload: any choice of the recognised columns
SampleTables == {[c \in cs |-> sheet[c]] : cs \in SUBSET ColumnNames, sheet \in SampleSheets}

(***************************************************************************)
(* One run of the script per user action (Streamlit reruns main on every   *)
(* widget change; the button is true only in the run its click started).   *)
(***************************************************************************)
LoadError == "Erreur lors du chargement du fichier"

\* a run in which the button is not pressed: nothing of the analysis is shown
Rerun ==
    /\ ran' = FALSE
    /\ invoked' = <<>>
    /\ results' = <<>>
    /\ errors' = IF loaded' = "error" THEN <<LoadError>> ELSE <<>>
    /\ chart' = NoChart

NoRuns == [l \in Languages |-> [done |-> FALSE, results |-> <<>>]]

Init ==
    /\ language = "fr"
    /\ loaded = "none"
    /\ data = NoTable
    /\ discount_pct = DefaultRate
    /\ ran = FALSE
    /\ invoked = <<>>
    /\ results = <<>>
    /\ errors = <<>>
    /\ chart = NoChart
    /\ runs = NoRuns

SelectLanguage ==
    \E l \in Languages :
        /\ l # language
        /\ language' = l
        /\ UNCHANGED <<loaded, data, discount_pct, runs>>
        /\ Rerun

Upload ==
    \E t \in SampleTables :
        /\ loaded' = "ok"
        /\ data' = t
        /\ runs' = NoRuns
        /\ UNCHANGED <<language, discount_pct>>
        /\ Rerun

UploadUnreadable ==
    /\ loaded' = "error"
    /\ data' = NoTable
    /\ runs' = NoRuns
    /\ UNCHANGED <<language, discount_pct>>
    /\ Rerun

SetRate ==
    \E p \in Rates :
        /\ loaded = "ok"
        /\ p # discount_pct
        /\ discount_pct' = p
        /\ runs' = NoRuns
        /\ UNCHANGED <<language, loaded, data>>
        /\ Rerun

Generate ==
    /\ loaded = "ok"
    /\ LET out == Evaluate(data, discount_rate_of(discount_pct), language)
       IN  /\ ran' = TRUE
           /\ invoked' = out.invoked
           /\ results' = out.results
           /\ errors' = out.errors
           /\ chart' = DrawChart(out.results)
           /\ runs' = [runs EXCEPT ![language] = [done |-> TRUE, results |-> out.results]]
    /\ UNCHANGED <<language, loaded, data, discount_pct>>

Next == SelectLanguage \/ Upload \/ UploadUnreadable \/ SetRate \/ Generate

Spec == Init /\ [][Next]_vars

(***************************************************************************)
(* The evaluations on every numeric sheet of at most MaxRows periods: the   *)
(* sheet is the one held by the session, the user changes language and     *)
(* rate and presses the button.                                            *)
(***************************************************************************)
RevenueCells == {NumCell(FillValue), NumCell(100)}
CostCells == {NumCell(FillValue), NumCell(50), NumCell(150)}
CorrectedRevenueCells == {NumCell(FillValue), NumCell(100)}
CorrectedCostCells == {NumCell(FillValue), NumCell(50)}
ExternalityCells == {NumCell(-50), NumCell(FillValue)}

FinancialTables ==
    UNION {{[Year |-> [i \in 1..n |-> NumCell(i)],
             Residual_Value |-> [i \in 1..n |-> NumCell(FillValue)],
             Revenues |-> r,
             Total_Costs |-> c] : r \in [1..n -> RevenueCells], c \in [1..n -> CostCells]}
           : n \in 1..MaxRows}

EconomicTables ==
    UNION {{[Corrected_Revenues |-> r,
             Corrected_Costs |-> c,
             Externalities |-> x] : r \in [1..n -> CorrectedRevenueCells],
                                    c \in [1..n -> CorrectedCostCells],
                                    x \in [1..n -> ExternalityCells]}
           : n \in 1..MaxRows}

InitEval ==
    /\ language = "fr"
    /\ loaded = "ok"
    /\ data \in FinancialTables \cup EconomicTables
    /\ discount_pct = DefaultRate
    /\ ran = FALSE
    /\ invoked = <<>>
    /\ results = <<>>
    /\ errors = <<>>
    /\ chart = NoChart
    /\ runs = NoRuns

NextEval == SelectLanguage \/ SetRate \/ Generate

SpecEval == InitEval /\ [][NextEval]_vars

(***************************************************************************)
(* Reading a result set and a sheet, for the properties below.             *)
(***************************************************************************)
CodeSet == {Codes[k] : k \in 1..Len(Codes)}
FinancialCodes == {"VANF", "TRIF", "DRC"}
EconomicCodes == {"VANE", "TRIE", "RCA"}

CodeOf(label) == CHOOSE c \in CodeSet : \E l \in Languages : TRANSLATIONS[c][l] = label

CodesOf(rows) == [i \in 1..Len(rows) |-> CodeOf(rows[i].Indicateur)]
ValuesOf(rows) == [i \in 1..Len(rows) |-> rows[i].Valeur]

Reported(code) == \E i \in 1..Len(results) : CodeOf(results[i].Indicateur) = code
ValueOf(code) ==
    results[CHOOSE i \in 1..Len(results) : CodeOf(results[i].Indicateur) = code].Valeur

Called(f) == \E i \in 1..Len(invoked) : invoked[i] = f
Shown(message) == \E i \in 1..Len(errors) : errors[i] = message

FinancialError == "Erreur dans l'evaluation financiere"
EconomicError == "Erreur dans l'evaluation economique"

AllFinancialPresent == FinancialColumns \subseteq DOMAIN data
AllEconomicPresent == EconomicColumns \subseteq DOMAIN data

FinancialNumeric ==
    AllFinancialPresent /\ IsNumeric(data["Revenues"]) /\ IsNumeric(data["Total_Costs"])
EconomicNumeric ==
    /\ AllEconomicPresent
    /\ IsNumeric(data["Corrected_Revenues"])
    /\ IsNumeric(data["Corrected_Costs"])
    /\ IsNumeric(data["Externalities"])

\* the net cash flow of period i, read from the sheet
FinancialNet(i) == data["Revenues"][i].v - data["Total_Costs"][i].v
EconomicNet(i) ==
    data["Corrected_Revenues"][i].v - data["Corrected_Costs"][i].v + data["Externalities"][i].v

Periods == 1..Len(data[CHOOSE c \in DOMAIN data : TRUE])

(***************************************************************************)
(* C1.  In a run of "generate evaluation", financial_evaluation is called  *)
(* iff Year, Total_Costs, Revenues and Residual_Value are all columns of   *)
(* the sheet, and economic_evaluation iff Corrected_Costs,                 *)
(* Corrected_Revenues and Externalities all are; each decision looks at    *)
(* its own columns only.  A sheet with the financial columns and no        *)
(* Externalities gives financial indicators only; a sheet with only        *)
(* Revenues and Total_Costs gives no financial indicator.                  *)
(***************************************************************************)
C1_Selection ==
    ran =>
        /\ Called("financial_evaluation") <=> AllFinancialPresent
        /\ Called("economic_evaluation") <=> AllEconomicPresent
        /\ (\E c \in FinancialCodes : Reported(c)) => AllFinancialPresent
        /\ (\E c \in EconomicCodes : Reported(c)) => AllEconomicPresent
        /\ (FinancialNumeric /\ "Externalities" \notin DOMAIN data)
              => {c \in CodeSet : Reported(c)} = FinancialCodes
        /\ (DOMAIN data = {"Revenues", "Total_Costs"}) => results = <<>>

C1_Witness ==
    /\ ran
    /\ AllFinancialPresent
    /\ "Externalities" \notin DOMAIN data
    /\ "Corrected_Costs" \in DOMAIN data
    /\ CodesOf(results) = <<"VANF", "TRIF", "DRC">>
    /\ invoked = <<"financial_evaluation">>

(***************************************************************************)
(* C2.  When economic_evaluation runs on numeric columns whose             *)
(* Corrected_Costs sum to zero, an error of the economic evaluation is     *)
(* shown and the results hold no RCA entry (no number, inf or nan).        *)
(***************************************************************************)
C2_ZeroCostsReportedAsError ==
    (ran /\ EconomicNumeric /\ SeriesSum(data["Corrected_Costs"]) = 0)
        => (Shown(EconomicError) /\ ~Reported("RCA"))

(***************************************************************************)
(* C3.  When the net cash flow of a group has no sign change, the run      *)
(* shows no error, the IRR of the group is absent from the results and     *)
(* the two other indicators of the group are reported.                     *)
(***************************************************************************)
C3_NoSignChangeIrrAbsent ==
    /\ (ran /\ FinancialNumeric
            /\ ((\A i \in Periods : FinancialNet(i) >= 0) \/ (\A i \in Periods : FinancialNet(i) <= 0)))
          => (errors = <<>> /\ ~Reported("TRIF") /\ Reported("VANF") /\ Reported("DRC"))
    /\ (ran /\ EconomicNumeric
            /\ ((\A i \in Periods : EconomicNet(i) >= 0) \/ (\A i \in Periods : EconomicNet(i) <= 0)))
          => (errors = <<>> /\ ~Reported("TRIE") /\ Reported("VANE") /\ Reported("RCA"))

(***************************************************************************)
(* C4.  A failed evaluation is all-or-nothing: when a step of              *)
(* financial_evaluation (economic_evaluation) raises, the error naming     *)
(* that evaluation is shown, the function returns (None, None, None) and   *)
(* none of the group's three indicators is in the results; the error is    *)
(* shown in no other case.                                                 *)
(***************************************************************************)
C4_AllOrNothing ==
    ran =>
        /\ Shown(FinancialError) <=> (AllFinancialPresent /\ ~FinancialNumeric)
        /\ Shown(EconomicError) <=> (AllEconomicPresent /\ ~EconomicNumeric)
        /\ Shown(FinancialError) => \A c \in FinancialCodes : ~Reported(c)
        /\ Shown(EconomicError) => \A c \in EconomicCodes : ~Reported(c)
        /\ (AllFinancialPresent /\ ~FinancialNumeric) =>
              LET out == financial_evaluation(data, discount_rate_of(discount_pct))
              IN  <<out.npv, out.irr, out.third>> = <<NoneV, NoneV, NoneV>>
        /\ (AllEconomicPresent /\ ~EconomicNumeric) =>
              LET out == economic_evaluation(data, discount_rate_of(discount_pct))
              IN  <<out.npv, out.irr, out.third>> = <<NoneV, NoneV, NoneV>>

C4_Witness ==
    /\ ran
    /\ AllFinancialPresent
    /\ ~IsNumeric(data["Revenues"])
    /\ errors = <<FinancialError>>
    /\ CodesOf(results) = <<"VANE", "TRIE", "RCA">>

(***************************************************************************)
(* C5.  The recovery period (DRC) is the number of periods whose net cash  *)
(* flow Revenues - Total_Costs is strictly negative; no cumulative sum is  *)
(* used.  For Revenues 100,100,100 and Total_Costs 50,150,50 it is 1.      *)
(***************************************************************************)
RECURSIVE NegativePeriodsUpTo(_)
NegativePeriodsUpTo(i) ==
    IF i = 0 THEN 0
    ELSE NegativePeriodsUpTo(i - 1) + (IF FinancialNet(i) < 0 THEN 1 ELSE 0)

IsExample ==
    /\ AllFinancialPresent
    /\ data["Revenues"] = Column(<<100, 100, 100>>)
    /\ data["Total_Costs"] = Column(<<50, 150, 50>>)

C5_RecoveryPeriod ==
    (ran /\ FinancialNumeric) =>
        /\ Reported("DRC")
        /\ ValueOf("DRC") = FloatV([num |-> NegativePeriodsUpTo(Len(data["Revenues"])), den |-> 1])
        /\ IsExample => ValueOf("DRC") = FloatV([num |-> 1, den |-> 1])

C5_Witness ==
    /\ ran
    /\ IsExample
    /\ ValueOf("DRC") = FloatV([num |-> 1, den |-> 1])

(***************************************************************************)
(* C6.  VANF and VANE are the sum over t of c_t / (1+r)^t, period 0 not    *)
(* discounted, c being Revenues - Total_Costs and Corrected_Revenues -     *)
(* Corrected_Costs + Externalities.  With 1+r = P/Q in lowest terms and n  *)
(* the last period this is (sum of c_t Q^t P^(n-t)) / P^n.  An all-zero    *)
(* series gives 0 at every rate; at rate 0 the value is the plain sum.     *)
(***************************************************************************)
RECURSIVE IntPow(_, _)
IntPow(b, k) == IF k = 0 THEN 1 ELSE b * IntPow(b, k - 1)

GrowthP == (PercentBase + discount_pct) \div Gcd(PercentBase + discount_pct, PercentBase)
GrowthQ == PercentBase \div Gcd(PercentBase + discount_pct, PercentBase)

RECURSIVE ScaledSum(_, _, _)
\* sum over periods i..n+1 (t = i-1) of Net(i) * Q^t * P^(n-t)
ScaledSum(Net(_), i, n) ==
    IF i > n + 1 THEN 0
    ELSE Net(i) * IntPow(GrowthQ, i - 1) * IntPow(GrowthP, n - (i - 1)) + ScaledSum(Net, i + 1, n)

RECURSIVE PlainSum(_, _)
PlainSum(Net(_), i) == IF i = 0 THEN 0 ELSE Net(i) + PlainSum(Net, i - 1)

IsPresentValue(v, Net(_)) ==
    LET n == Cardinality(Periods) - 1
    IN  /\ v.kind = "num"
        /\ v.den > 0
        /\ [num |-> v.num, den |-> v.den] = Rat(ScaledSum(Net, 1, n), IntPow(GrowthP, n))
        /\ (\A i \in Periods : Net(i) = 0) => v.num = 0
        /\ discount_pct = 0 => (v.den = 1 /\ v.num = PlainSum(Net, n + 1))

C6_PresentValue ==
    /\ (ran /\ FinancialNumeric) => (Reported("VANF") /\ IsPresentValue(ValueOf("VANF"), FinancialNet))
    /\ (ran /\ EconomicNumeric) => (Reported("VANE") /\ IsPresentValue(ValueOf("VANE"), EconomicNet))

\* 50 - 50/1.08 + 50/1.08^2 = 33950/729
C6_Witness ==
    /\ ran
    /\ IsExample
    /\ discount_pct = DefaultRate
    /\ ValueOf("VANF") = FloatV([num |-> 33950, den |-> 729])

(***************************************************************************)
(* C7.  The language does not interfere with the computation: two runs on  *)
(* the same sheet and rate, one in French and one in English, give result  *)
(* sets of the same length, with the same indicator codes at the same      *)
(* places and the same values; only the label text differs.                *)
(***************************************************************************)
C7_LanguageOnlyLabels ==
    \A l1, l2 \in Languages :
        (l1 # l2 /\ runs[l1].done /\ runs[l2].done) =>
            LET a == runs[l1].results
                b == runs[l2].results
            IN  /\ Len(a) = Len(b)
                /\ \A i \in 1..Len(a) :
                      /\ a[i].Valeur = b[i].Valeur
                      /\ a[i].Indicateur # b[i].Indicateur
                      /\ \E c \in CodeSet :
                            /\ a[i].Indicateur = TRANSLATIONS[c][l1]
                            /\ b[i].Indicateur = TRANSLATIONS[c][l2]

C7_Witness ==
    /\ ran
    /\ language = "en"
    /\ runs["fr"].done
    /\ runs["en"].done
    /\ Len(results) = Len(Codes)
    /\ results[1].Indicateur = "Financial Net Present Value"
    /\ runs["fr"].results[1].Indicateur = "Valeur Actuelle Nette Financiere"

(***************************************************************************)
(* C8.  The indicators of a result set are in the order VANF, TRIF, DRC,   *)
(* VANE, TRIE, RCA restricted to those produced: the financial ones come   *)
(* first, no code comes twice, and there are at most six entries.          *)
(***************************************************************************)
PlaceOf(code) == CHOOSE k \in 1..Len(Codes) : Codes[k] = code

C8_FixedOrder ==
    /\ Len(results) <= 6
    /\ \A i \in 1..Len(results) :
          \E c \in CodeSet : \E l \in Languages : results[i].Indicateur = TRANSLATIONS[c][l]
    /\ \A i, j \in 1..Len(results) :
          i < j => PlaceOf(CodesOf(results)[i]) < PlaceOf(CodesOf(results)[j])

C8_Witness ==
    /\ ran
    /\ CodesOf(results) = Codes

(***************************************************************************)
(* C9.  The chart is drawn in a run iff the result set of that run is not  *)
(* empty; when neither column set is complete the results table is empty   *)
(* and no chart is drawn.                                                  *)
(***************************************************************************)
C9_ChartIffResults ==
    /\ chart.rendered <=> results # <<>>
    /\ (ran /\ ~AllFinancialPresent /\ ~AllEconomicPresent)
          => (results = <<>> /\ ~chart.rendered)

C9_Witness ==
    /\ ran
    /\ ~AllFinancialPresent
    /\ ~AllEconomicPresent
    /\ {"Revenues", "Total_Costs", "Externalities"} \subseteq DOMAIN data
    /\ results = <<>>
    /\ ~chart.rendered

(***************************************************************************)
(* C10.  In a drawn chart every bar has the colour that the legend gives   *)
(* to the bar's own indicator code.                                        *)
(***************************************************************************)
C10_LegendMatchesBars ==
    chart.rendered =>
        \A i \in 1..Len(chart.bars) :
            \E k \in 1..Len(chart.legend) :
                /\ chart.legend[k].key = CodeOf(chart.bars[i].label)
                /\ chart.legend[k].color = chart.bars[i].color

====
